---- MODULE Spec2Model ----
(***************************************************************************)
(* Model of the pokecode Discord bot worker: the cron ScheduleController   *)
(* (src/src/utils/scheduled.ts), the KV -> R2 backup and the R2 retention  *)
(* pruner (src/src/constants.ts), and the wiring of src/src/index.ts.      *)
(*                                                                         *)
(* Strings whose characters matter (archive object names, decimal numbers) *)
(* are sequences of one-character strings; KV keys are sequences of path   *)
(* segments, joined by '/' in the program.                                 *)
(***************************************************************************)
EXTENDS Integers, Sequences, FiniteSets, TLC

VARIABLES
    cmd,    \* the /code commands POST /interactions has received so far
    jobs,   \* ScheduleController._jobs: Map<string, Array<ScheduleHandler>>
    disp,   \* the calls of ScheduleController.process made so far
    KV,     \* env.KV: the key-value store, key -> stored list
    BACKUPS, \* env.BACKUPS: the archive bucket, object key -> object
    bk,     \* the calls of backup(env) made so far
    pr,     \* the calls of pruneBackups(env, retentionDays) made so far
    now     \* the wall clock, Date.now()

vars == <<cmd, jobs, disp, KV, BACKUPS, bk, pr, now>>

----------------------------------------------------------------------------
(* Bounds of the model *)

MaxNow == 1          \* the clock runs from 0 to MaxNow
MaxJobs == 2         \* registrations made on one controller
MaxCalls == 2        \* requests and cron triggers the worker receives
MaxDispatch == 1     \* calls of process among them
MaxPrunes == 2       \* calls of pruneBackups
KVListLimit == 2     \* keys one page of KV.list holds (1000 on Cloudflare)
R2ListLimit == 3     \* objects one page of BACKUPS.list holds (1000 on Cloudflare)
DayMs == 1           \* clock units in one day (86400000 ms, scaled)

----------------------------------------------------------------------------
(* JavaScript values *)

\* A value that may be null or undefined is a sequence: <<>> for null or
\* undefined, <<v>> for the value v.
Null == <<>>
Some(v) == <<v>>

\* Map.prototype.set
MapSet(m, k, v) == [x \in DOMAIN m \cup {k} |-> IF x = k THEN v ELSE m[x]]

EmptyMap == [x \in {} |-> Null]

DigitChars == <<"0", "1", "2", "3", "4", "5", "6", "7", "8", "9">>

IsDigit(c) == \E d \in 1..10 : DigitChars[d] = c

DigitVal(c) == (CHOOSE d \in 1..10 : DigitChars[d] = c) - 1

\* Number.prototype.toString of a non-negative integer
RECURSIVE NumberToString(_)
NumberToString(n) ==
    IF n < 10 THEN <<DigitChars[n + 1]>>
    ELSE NumberToString(n \div 10) \o <<DigitChars[(n % 10) + 1]>>

\* Number.parseInt(digits, 10) of a non-empty run of decimal digits
RECURSIVE ParseInt(_)
ParseInt(ds) ==
    IF Len(ds) = 0 THEN 0
    ELSE ParseInt(SubSeq(ds, 1, Len(ds) - 1)) * 10 + DigitVal(ds[Len(ds)])

EndsWith(s, suf) ==
    /\ Len(s) >= Len(suf)
    /\ SubSeq(s, Len(s) - Len(suf) + 1, Len(s)) = suf

----------------------------------------------------------------------------
(* The schedule dispatcher: src/src/utils/scheduled.ts *)

\* Cron strings a trigger may carry: the empty string, the daily schedule of
\* index.ts, and the same schedule with a trailing blank.
DailyCron == "0 0 * * *"
Schedules == {"", DailyCron, "0 0 * * * "}

\* Handlers: two arbitrary ScheduleHandler values and the handler index.ts
\* registers for the daily schedule.
Handlers == {"h1", "h2", "backupHandler"}

\* What one call of a handler does before it returns: return nothing, throw,
\* or return a promise that is still pending.  The daily handler is an async
\* function without an await: it returns a promise that is already fulfilled.
Behaviours(h) ==
    IF h = "backupHandler" THEN {"resolved"} ELSE {"void", "throw", "pending"}

\* The schedule string without the blanks around it
Trimmed(cron) == IF cron = "0 0 * * * " THEN DailyCron ELSE cron

\* A lookup that ignores the blanks around the schedule string
LookupTrimmed(m, cron) ==
    IF Trimmed(cron) \in DOMAIN m THEN m[Trimmed(cron)] ELSE <<>>

\* this._jobs.get(controller.cron) ?? []
Lookup(m, cron) == IF cron \in DOMAIN m THEN m[cron] ELSE <<>>

\* A registration that replaces the list of the schedule
RegisteredAlone(m, schedule, h) == MapSet(m, schedule, <<h>>)

\* ScheduleController.handler: the map after handler(schedule, h)
Registered(m, schedule, h) ==
    MapSet(m, schedule, Lookup(m, schedule) \o <<h>>)

RECURSIVE SumLen(_, _)
SumLen(m, S) ==
    IF S = {} THEN 0
    ELSE LET x == CHOOSE x \in S : TRUE IN Len(m[x]) + SumLen(m, S \ {x})

\* The number of registrations a map holds
JobCount(m) == SumLen(m, DOMAIN m)

\* The test for an empty list left out
NoJobsNever(js) == FALSE

\* !jobs.length
NoJobs(js) == Len(js) = 0

\* console.warn(`No cron job found for schedule "${controller.cron}"`)
WarnLine(cron) == <<"warn", "No cron job found for schedule", cron>>

\* The position of the first handler that throws while jobs.map runs, or 0
FirstThrow(js, beh) ==
    IF \E i \in 1..Len(js) : beh[i] = "throw"
    THEN CHOOSE i \in 1..Len(js) :
            /\ beh[i] = "throw"
            /\ \A j \in 1..(i - 1) : beh[j] # "throw"
    ELSE 0

StateAfterCall(b) ==
    CASE b = "throw" -> "threw"
      [] b = "pending" -> "running"
      [] OTHER -> "fulfilled"

\* A loop that awaits each handler before it calls the next one
MapHandlersOneByOne(js, beh) ==
    [hstate |-> [i \in 1..Len(js) |->
                    IF i = 1 THEN StateAfterCall(beh[i]) ELSE "notinvoked"],
     calls |-> [i \in 1..Len(js) |-> IF i = 1 THEN 1 ELSE 0],
     threw |-> beh[1] = "throw"]

\* jobs.map((handler) => handler({...})): the handlers are called in order,
\* in one turn of the event loop; a handler that throws ends the map.
MapHandlers(js, beh) ==
    LET t == FirstThrow(js, beh)
        reached(i) == t = 0 \/ i <= t
    IN [hstate |-> [i \in 1..Len(js) |->
                       IF reached(i) THEN StateAfterCall(beh[i]) ELSE "notinvoked"],
        calls |-> [i \in 1..Len(js) |-> IF reached(i) THEN 1 ELSE 0],
        threw |-> t # 0]

\* A join that settles with the first handler that does
PromiseAny(hs) ==
    IF \E i \in 1..Len(hs) : hs[i] = "fulfilled" THEN "fulfilled"
    ELSE IF \E i \in 1..Len(hs) : hs[i] = "rejected" THEN "rejected"
    ELSE "pending"

\* Promise.all over the handlers' results: rejected as soon as one of them is,
\* fulfilled once all of them are.
PromiseAll(hs) ==
    IF \E i \in 1..Len(hs) : hs[i] = "rejected" THEN "rejected"
    ELSE IF \A i \in 1..Len(hs) : hs[i] = "fulfilled" THEN "fulfilled"
    ELSE "pending"

\* backup(env) up to its first await: the document is created with the
\* current instant and KV.list is called.  Beside the locals of the call the
\* record keeps what the claims ask about: the store operation that failed,
\* the number of puts that took effect, whether the name put was already in
\* the bucket, whether the key-value store was written since the call, and
\* the listed keys whose fetch found no value.
backup(trigger, t) ==
    [pc |-> "list", trigger |-> trigger, timestamp |-> t,
     keys |-> <<>>, complete |-> TRUE, i |-> 1, data |-> <<>>, skipped |-> {},
     req |-> Null, nputs |-> 0, existed |-> FALSE, raced |-> FALSE,
     failed |-> "none",
     log |-> <<>>, result |-> "pending"]

\* The positions of js at which the daily handler ran
BackupCalls(js, m) ==
    {i \in 1..Len(js) : js[i] = "backupHandler" /\ m.calls[i] = 1}

RECURSIVE Repeat(_, _)
Repeat(x, n) == IF n = 0 THEN <<>> ELSE <<x>> \o Repeat(x, n - 1)

\* The requests and cron triggers received so far: /code commands, calls of
\* process, and POST /backup requests
Calls ==
    Len(cmd) + Len(disp)
        + Cardinality({b \in 1..Len(bk) : bk[b].trigger = "http"})

\* handler(schedule, h)
handler(schedule, h) ==
    /\ JobCount(jobs) < MaxJobs
    /\ jobs' = Registered(jobs, schedule, h)
    /\ UNCHANGED <<cmd, disp, KV, BACKUPS, bk, pr, now>>

\* process(controller, env, executionCtx) up to its await (or its return)
process(cron) ==
    /\ Len(disp) < MaxDispatch
    /\ Calls < MaxCalls
    /\ LET js == Lookup(jobs, cron) IN
       IF NoJobs(js)
       THEN /\ disp' = Append(disp,
                  [cron |-> cron, handlers |-> js, hstate |-> <<>>,
                   calls |-> <<>>, waitUntil |-> {},
                   log |-> <<WarnLine(cron)>>, status |-> "fulfilled"])
            /\ UNCHANGED bk
       ELSE \E beh \in [1..Len(js) -> {"void", "throw", "pending", "resolved"}] :
            /\ \A i \in 1..Len(js) : beh[i] \in Behaviours(js[i])
            /\ LET m == MapHandlers(js, beh)
                   n == Cardinality(BackupCalls(js, m))
               IN /\ bk' = bk \o Repeat(backup("cron", now), n)
                  /\ disp' = Append(disp,
                        [cron |-> cron, handlers |-> js, hstate |-> m.hstate,
                         calls |-> m.calls,
                         waitUntil |-> (Len(bk) + 1)..(Len(bk) + n),
                         log |-> <<>>,
                         status |-> IF m.threw THEN "rejected" ELSE "pending"])
    /\ UNCHANGED <<cmd, jobs, KV, BACKUPS, pr, now>>

\* The promise a handler returned settles
HandlerSettles(d, i, outcome) ==
    /\ d \in 1..Len(disp)
    /\ i \in 1..Len(disp[d].hstate)
    /\ disp[d].hstate[i] = "running"
    /\ disp' = [disp EXCEPT ![d].hstate[i] = outcome]
    /\ UNCHANGED <<cmd, jobs, KV, BACKUPS, bk, pr, now>>

\* await Promise.all(...) settles, and with it the promise process returned
ProcessSettles(d) ==
    /\ d \in 1..Len(disp)
    /\ disp[d].status = "pending"
    /\ PromiseAll(disp[d].hstate) # "pending"
    /\ disp' = [disp EXCEPT ![d].status = PromiseAll(disp[d].hstate)]
    /\ UNCHANGED <<cmd, jobs, KV, BACKUPS, bk, pr, now>>

\* The clock advances
Tick ==
    /\ now < MaxNow
    /\ now' = now + 1
    /\ UNCHANGED <<cmd, jobs, disp, KV, BACKUPS, bk, pr>>

----------------------------------------------------------------------------
(* The key-value store and the archive bucket, as the program uses them *)

KEY_PREFIX == "user_codes"

\* A key that leaves the server out
SharedKey(server, user) == <<KEY_PREFIX, user>>

\* [KEY_PREFIX, serverId, targetUserId].join('/'), kept as its segments
CodesKey(server, user) == <<KEY_PREFIX, server, user>>

\* A key another application left in the same namespace: it starts with
\* 'user_codes' but not with 'user_codes/'.
LegacyKey == <<"user_codes_old", "g1", "u1">>

\* Every key of the model in the order KV.list returns keys (by code point:
\* '/' sorts before '_')
KeyOrder ==
    <<CodesKey("g1", "u1"), CodesKey("g1", "u2"),
      CodesKey("g2", "u1"), CodesKey("g2", "u2"), LegacyKey>>

\* Whether the joined key starts with `${KEY_PREFIX}/`
UnderPrefix(k) == Len(k) >= 2 /\ k[1] = KEY_PREFIX

Take(s, n) == SubSeq(s, 1, IF Len(s) < n THEN Len(s) ELSE n)

\* env.KV.list({ prefix }): the first page of the keys under the prefix, and
\* whether that page is the whole listing
KVList(store, limit) ==
    LET all == SelectSeq(KeyOrder, LAMBDA k : k \in DOMAIN store /\ UnderPrefix(k))
    IN [keys |-> Take(all, limit), list_complete |-> Len(all) <= limit]

\* env.KV.get(key, { type: 'json' }): null for a key that holds nothing
KVGet(store, k) == IF k \in DOMAIN store THEN Some(store[k]) ELSE Null

\* env.KV.put(key, JSON.stringify(value))
KVPut(store, k, v) == MapSet(store, k, v)

\* A test that also skips an empty array
TruthyNonEmpty(r) == Len(r) = 1 /\ Len(r[1]) > 0

\* if (value): null is falsy, an array is truthy even when it is empty
Truthy(r) == Len(r) = 1

\* Map.prototype.set on a map kept as its entries in insertion order
EntriesSet(entries, k, v) ==
    IF \E i \in 1..Len(entries) : entries[i][1] = k
    THEN [i \in 1..Len(entries) |->
             IF entries[i][1] = k THEN <<k, v>> ELSE entries[i]]
    ELSE Append(entries, <<k, v>>)

\* Object.fromEntries
ObjectFromEntries(entries) ==
    [k \in {entries[i][1] : i \in 1..Len(entries)} |->
        LET last == CHOOSE i \in 1..Len(entries) :
                       /\ entries[i][1] = k
                       /\ \A j \in (i + 1)..Len(entries) : entries[j][1] # k
        IN entries[last][2]]

\* Date.prototype.toISOString of the instant t
ToISOString(t) == <<"iso", t>>

\* JSON.stringify(value, null, 2) and JSON.parse
JsonStringify(v) == <<"json", v>>
JsonParse(text) == text[2]

StrBackup == <<"b", "a", "c", "k", "u", "p", "-">>
StrJson == <<".", "j", "s", "o", "n">>

\* `backup-${Date.now()}.json`
BackupFilename(t) == StrBackup \o NumberToString(t) \o StrJson

\* The arguments of env.BACKUPS.put(...) for the entries collected
PutRequest(entries, timestamp, t) ==
    [name |-> BackupFilename(t),
     body |-> JsonStringify([data |-> ObjectFromEntries(entries),
                             timestamp |-> ToISOString(timestamp),
                             version |-> "1.0"]),
     customMetadata |-> [keyCount |-> NumberToString(Len(entries)),
                         timestamp |-> ToISOString(timestamp),
                         version |-> "1.0"],
     contentType |-> "application/json"]

\* A put that leaves the new object alone in the bucket
R2PutAlone(bucket, req) ==
    MapSet(EmptyMap, req.name,
           [body |-> req.body, customMetadata |-> req.customMetadata,
            contentType |-> req.contentType])

\* env.BACKUPS.put(name, body, options)
R2Put(bucket, req) ==
    MapSet(bucket, req.name,
           [body |-> req.body, customMetadata |-> req.customMetadata,
            contentType |-> req.contentType])

----------------------------------------------------------------------------
(* The snapshot producer: backup, src/src/constants.ts lines 90-133 *)

\* The loop over listResult.keys is over: the file name is made from the
\* clock and BACKUPS.put is called
LoopDone(rec, t) ==
    [rec EXCEPT !.pc = "put",
                !.req = Some(PutRequest(rec.data, rec.timestamp, t))]

\* The failure rethrown to the caller
BackupEscapes(rec) ==
    [rec EXCEPT !.pc = "done", !.result = "rejected"]

\* catch (error) { console.error('Backup failed:', error) }
BackupCaught(rec) ==
    [rec EXCEPT !.pc = "done", !.result = "resolved",
                !.log = Append(@, <<"error", "Backup failed:">>)]

\* POST /backup: c.executionCtx.waitUntil(backup(c.env))
PostBackup ==
    /\ Calls < MaxCalls
    /\ bk' = Append(bk, backup("http", now))
    /\ UNCHANGED <<cmd, jobs, disp, KV, BACKUPS, pr, now>>

\* await env.KV.list(...) resolves
BackupListed(b) ==
    /\ b \in 1..Len(bk)
    /\ bk[b].pc = "list"
    /\ LET lr == KVList(KV, KVListLimit)
           rec == [bk[b] EXCEPT !.keys = lr.keys,
                                !.complete = lr.list_complete,
                                !.pc = "get"]
       IN bk' = [bk EXCEPT ![b] = IF Len(lr.keys) = 0 THEN LoopDone(rec, now)
                                  ELSE rec]
    /\ UNCHANGED <<cmd, jobs, disp, KV, BACKUPS, pr, now>>

\* A loop body that stores whatever the fetch returned
AfterGetAlways(rec, k, value) ==
    [rec EXCEPT !.data = EntriesSet(@, k, value),
                !.skipped = IF Truthy(value) THEN @ ELSE @ \cup {k},
                !.i = @ + 1]

\* if (value) data.set(key.name, value): the locals after the fetch of key k
AfterGet(rec, k, value) ==
    [rec EXCEPT !.data = IF Truthy(value) THEN EntriesSet(@, k, value[1]) ELSE @,
                !.skipped = IF Truthy(value) THEN @ ELSE @ \cup {k},
                !.i = @ + 1]

\* await env.KV.get(key.name, ...) resolves, for the key the loop is at
BackupGot(b) ==
    /\ b \in 1..Len(bk)
    /\ bk[b].pc = "get"
    /\ LET k == bk[b].keys[bk[b].i]
           value == KVGet(KV, k)
           rec == AfterGet(bk[b], k, value)
       IN bk' = [bk EXCEPT ![b] = IF bk[b].i = Len(bk[b].keys)
                                  THEN LoopDone(rec, now) ELSE rec]
    /\ UNCHANGED <<cmd, jobs, disp, KV, BACKUPS, pr, now>>

\* await env.BACKUPS.put(...) resolves: the object is in the bucket
BackupPut(b) ==
    /\ b \in 1..Len(bk)
    /\ bk[b].pc = "put"
    /\ LET req == bk[b].req[1] IN
       /\ BACKUPS' = R2Put(BACKUPS, req)
       /\ bk' = [bk EXCEPT ![b] =
                   [@ EXCEPT !.pc = "done", !.result = "resolved",
                             !.nputs = @ + 1,
                             !.existed = req.name \in DOMAIN BACKUPS,
                             !.log = Append(@, <<"log",
                                 "Backup completed successfully:", req.name>>)]]
    /\ UNCHANGED <<cmd, jobs, disp, KV, pr, now>>

\* The store operation backup awaits (the listing, a fetch or the write) fails
BackupFails(b) ==
    /\ b \in 1..Len(bk)
    /\ bk[b].pc \in {"list", "get", "put"}
    /\ bk' = [bk EXCEPT ![b] = BackupCaught([bk[b] EXCEPT !.failed = bk[b].pc])]
    /\ UNCHANGED <<cmd, jobs, disp, KV, BACKUPS, pr, now>>

\* A key of the store is deleted from outside the worker (the worker itself
\* never deletes a key): a fetch of it returns null from then on
KeyDeleted(k) ==
    /\ k \in DOMAIN KV
    /\ KV' = [x \in DOMAIN KV \ {k} |-> KV[x]]
    /\ bk' = [b \in 1..Len(bk) |-> [bk[b] EXCEPT !.raced = TRUE]]
    /\ UNCHANGED <<cmd, jobs, disp, BACKUPS, pr, now>>

----------------------------------------------------------------------------
(* The /code commands: POST /interactions, src/src/index.ts lines 104-209 *)

Entry(name, code) == [name |-> name, code |-> code]

\* A test that compares the codes only
HasDuplicateCode(existing, name, code) ==
    /\ Len(existing) = 1
    /\ \E i \in 1..Len(existing[1]) : existing[1][i].code = code

\* existingCodes?.some((e) => e.name === name || e.code === code)
HasDuplicate(existing, name, code) ==
    /\ Len(existing) = 1
    /\ \E i \in 1..Len(existing[1]) :
          existing[1][i].name = name \/ existing[1][i].code = code

\* existingCodes?.find((entry) => entry.name === name)
HasName(existing, name) ==
    /\ Len(existing) = 1
    /\ \E i \in 1..Len(existing[1]) : existing[1][i].name = name

\* existingCodes ?? []
OrEmpty(existing) == IF Len(existing) = 1 THEN existing[1] ELSE <<>>

\* The reply of /code list for the value read: lines 117-132
ListReply(codes) ==
    IF Len(OrEmpty(codes)) = 0 THEN <<"No codes found.">>
    ELSE <<"codes", codes[1]>>

\* The user a command is about for its reader: the user of the 'user' option
\* when the command carries one, the user who issued it otherwise
Mentioned(r) == IF Len(r.option) = 1 THEN r.option[1] ELSE r.user

\* A /code command arrives: the handler calls KV.get for the key of the
\* server and of the user who issued the command.  Beside the locals of the
\* handler the record keeps what the claims ask about: the list the store
\* held for the user the command is about when the handler read its key, and
\* whether the handler has written to the store.
CmdStart(kind, server, user, option, name, code) ==
    /\ Calls < MaxCalls
    /\ cmd' = Append(cmd,
          [kind |-> kind, server |-> server, user |-> user, option |-> option,
           key |-> CodesKey(server, user), name |-> name, code |-> code,
           pc |-> "get", existing |-> Null, theirs |-> Null, wrote |-> FALSE,
           value |-> <<>>, reply |-> <<>>])
    /\ UNCHANGED <<jobs, disp, KV, BACKUPS, bk, pr, now>>

\* await c.env.KV.get(...) resolves: the command replies, or calls KV.put
CmdGot(c) ==
    /\ c \in 1..Len(cmd)
    /\ cmd[c].pc = "get"
    /\ LET existing == KVGet(KV, cmd[c].key)
           r == [cmd[c] EXCEPT
                   !.existing = existing,
                   !.theirs = KVGet(KV, <<KEY_PREFIX, cmd[c].server, Mentioned(cmd[c])>>)]
       IN cmd' = [cmd EXCEPT ![c] =
            CASE r.kind = "list" ->
                   [r EXCEPT !.pc = "done", !.reply = ListReply(existing)]
              [] r.kind = "add" ->
                   IF HasDuplicate(existing, r.name, r.code)
                   THEN [r EXCEPT !.pc = "done", !.reply = <<"already exists">>]
                   ELSE [r EXCEPT !.pc = "put",
                                  !.value = OrEmpty(existing)
                                            \o <<Entry(r.name, r.code)>>]
              [] OTHER ->
                   IF ~HasName(existing, r.name)
                   THEN [r EXCEPT !.pc = "done", !.reply = <<"No code found">>]
                   ELSE [r EXCEPT !.pc = "put",
                                  !.value = SelectSeq(OrEmpty(existing),
                                               LAMBDA e : e.name # r.name)]]
    /\ UNCHANGED <<jobs, disp, KV, BACKUPS, bk, pr, now>>

\* await c.env.KV.put(...) resolves: the list is stored and the command replies
CmdPut(c) ==
    /\ c \in 1..Len(cmd)
    /\ cmd[c].pc = "put"
    /\ KV' = KVPut(KV, cmd[c].key, cmd[c].value)
    /\ cmd' = [cmd EXCEPT ![c] =
                 [@ EXCEPT !.pc = "done", !.wrote = TRUE,
                           !.reply = IF cmd[c].kind = "add" THEN <<"Added code">>
                                     ELSE <<"Removed code">>]]
    /\ bk' = [b \in 1..Len(bk) |-> [bk[b] EXCEPT !.raced = TRUE]]
    /\ UNCHANGED <<jobs, disp, BACKUPS, pr, now>>

----------------------------------------------------------------------------
(* The retention pruner: pruneBackups, src/src/constants.ts lines 143-172 *)

BACKUP_RETENTION_DAYS == 30

\* The characters of object names, by code point
Alphabet ==
    <<"-", ".", "/">> \o DigitChars \o
    <<"a", "b", "c", "d", "e", "j", "k", "l", "m", "n", "o", "p", "s", "t",
      "u", "x", "y">>

CharCode(c) == CHOOSE i \in 1..Len(Alphabet) : Alphabet[i] = c

\* s sorts before t, as R2 orders object keys
RECURSIVE StrLess(_, _)
StrLess(s, t) ==
    IF Len(t) = 0 THEN FALSE
    ELSE IF Len(s) = 0 THEN TRUE
    ELSE IF s[1] # t[1] THEN CharCode(s[1]) < CharCode(t[1])
    ELSE StrLess(Tail(s), Tail(t))

RECURSIVE SortNames(_)
SortNames(S) ==
    IF S = {} THEN <<>>
    ELSE LET m == CHOOSE x \in S : \A y \in S : x = y \/ StrLess(x, y)
         IN <<m>> \o SortNames(S \ {m})

\* env.BACKUPS.list(): the first page of the object keys, and whether more follow
R2List(bucket, limit) ==
    LET all == SortNames(DOMAIN bucket)
    IN [objects |-> Take(all, limit), truncated |-> Len(all) > limit]

\* env.BACKUPS.delete(keys)
R2Delete(bucket, keys) == [n \in DOMAIN bucket \ keys |-> bucket[n]]

\* The length of the run of digits s ends with
RECURSIVE DigitSuffixLen(_)
DigitSuffixLen(s) ==
    IF Len(s) > 0 /\ IsDigit(s[Len(s)])
    THEN 1 + DigitSuffixLen(SubSeq(s, 1, Len(s) - 1))
    ELSE 0

\* object.key.match(/backup-(\d+)\.json$/): null, or the digits captured.
\* The pattern is anchored at the end of the key only.
MatchBackup(key) ==
    IF ~EndsWith(key, StrJson) THEN Null
    ELSE LET t == SubSeq(key, 1, Len(key) - Len(StrJson))
             n == DigitSuffixLen(t)
         IN IF n >= 1 /\ EndsWith(SubSeq(t, 1, Len(t) - n), StrBackup)
            THEN Some(SubSeq(t, Len(t) - n + 1, Len(t)))
            ELSE Null

\* cutoffDate.setDate(cutoffDate.getDate() - retentionDays); getTime()
CutoffTimestamp(t, retentionDays) == t - retentionDays * DayMs

\* The loop over listResult.objects: the keys collected for deletion
KeysToDelete(objects, cutoff) ==
    {objects[i] : i \in {j \in 1..Len(objects) :
        LET match == MatchBackup(objects[j])
        IN Len(match) = 1 /\ ParseInt(match[1]) < cutoff}}

\* The failure rethrown to the caller
PruneEscapes(rec) ==
    [rec EXCEPT !.pc = "done", !.result = "rejected"]

\* catch (error) { console.error('Backup pruning failed:', error) }
PruneCaught(rec) ==
    [rec EXCEPT !.pc = "done", !.result = "resolved",
                !.log = Append(@, <<"error", "Backup pruning failed:">>)]

\* pruneBackups(env, retentionDays) up to its first await
pruneBackups(retentionDays) ==
    /\ Len(pr) < MaxPrunes
    /\ pr' = Append(pr,
          [retentionDays |-> retentionDays,
           cutoff |-> CutoffTimestamp(now, retentionDays),
           pc |-> "list", listed |-> <<>>, truncated |-> FALSE,
           keysToDelete |-> {}, ndeletes |-> 0, deleted |-> {},
           log |-> <<>>, result |-> "pending"])
    /\ UNCHANGED <<cmd, jobs, disp, KV, BACKUPS, bk, now>>

\* await env.BACKUPS.list() resolves: the keys to delete are collected and
\* BACKUPS.delete is called, or nothing qualifies and the call is over
PruneListed(p) ==
    /\ p \in 1..Len(pr)
    /\ pr[p].pc = "list"
    /\ LET lr == R2List(BACKUPS, R2ListLimit)
           keys == KeysToDelete(lr.objects, pr[p].cutoff)
           rec == [pr[p] EXCEPT !.listed = lr.objects,
                                !.truncated = lr.truncated,
                                !.keysToDelete = keys]
       IN pr' = [pr EXCEPT ![p] =
            IF Cardinality(keys) > 0
            THEN [rec EXCEPT !.pc = "delete"]
            ELSE [rec EXCEPT !.pc = "done", !.result = "resolved",
                     !.log = Append(@, <<"log",
                        "Pruning completed: No old backups to delete">>)]]
    /\ UNCHANGED <<cmd, jobs, disp, KV, BACKUPS, bk, now>>

\* await env.BACKUPS.delete(...) resolves: the objects are gone
PruneDeleted(p) ==
    /\ p \in 1..Len(pr)
    /\ pr[p].pc = "delete"
    /\ BACKUPS' = R2Delete(BACKUPS, pr[p].keysToDelete)
    /\ pr' = [pr EXCEPT ![p] =
                [@ EXCEPT !.pc = "done", !.result = "resolved",
                          !.ndeletes = @ + 1,
                          !.deleted = pr[p].keysToDelete \cap DOMAIN BACKUPS,
                          !.log = Append(@, <<"log", "Pruning completed:",
                             Cardinality(pr[p].keysToDelete)>>)]]
    /\ UNCHANGED <<cmd, jobs, disp, KV, bk, now>>

\* The bucket operation pruneBackups awaits (the listing or the delete) fails
PruneFails(p) ==
    /\ p \in 1..Len(pr)
    /\ pr[p].pc \in {"list", "delete"}
    /\ pr' = [pr EXCEPT ![p] = PruneCaught(pr[p])]
    /\ UNCHANGED <<cmd, jobs, disp, KV, BACKUPS, bk, now>>

----------------------------------------------------------------------------
(* Specifications *)

\* Stores the commands can have produced ([] is what removing the last code
\* of a list leaves): none, one and three keys under the prefix, the last two
\* with the legacy key beside them
InitStores ==
    LET sw == <<Entry("SW", "123")>>
        friend == <<Entry("friend", "456")>>
        emptied == KVPut(KVPut(EmptyMap, CodesKey("g1", "u2"), <<>>), LegacyKey, sw)
        three == KVPut(KVPut(emptied, CodesKey("g1", "u1"), sw),
                       CodesKey("g2", "u1"), friend)
    IN {EmptyMap, emptied, three}

\* The object another application left in the bucket
ForeignObject ==
    [body |-> <<"raw">>, customMetadata |-> EmptyMap, contentType |-> "text/plain"]

StrMy == <<"m", "y">>
StrNotes == <<"n", "o", "t", "e", "s", ".", "t", "x", "t">>

\* Object names a bucket may hold before a prune: backups of earlier instants
\* (one of them with two digits), 'mybackup-0.json' and 'notes.txt'
BucketNames ==
    {BackupFilename(t) : t \in {0, 1, 2, 10}}
        \cup {StrMy \o BackupFilename(0), StrNotes}

\* new ScheduleController().handler('0 0 * * *', ...): index.ts lines 226-232
WorkerJobs == Registered(EmptyMap, DailyCron, "backupHandler")

\* The worker as index.ts exports it: fetch and scheduled
Init ==
    /\ cmd = <<>>
    /\ jobs = WorkerJobs
    /\ disp = <<>>
    /\ KV \in InitStores
    /\ BACKUPS = EmptyMap
    /\ bk = <<>>
    /\ pr = <<>>
    /\ now = 0

Next ==
    \/ \E kind \in {"list", "add", "remove"} :
          CmdStart(kind, "g1", "u1", Null, "SW", "123")
    \/ \E c \in 1..Len(cmd) : CmdGot(c)
    \/ \E c \in 1..Len(cmd) : CmdPut(c)
    \/ PostBackup
    \/ \E cron \in Schedules : process(cron)
    \/ \E d \in 1..Len(disp) : ProcessSettles(d)
    \/ \E b \in 1..Len(bk) : BackupListed(b)
    \/ \E b \in 1..Len(bk) : BackupGot(b)
    \/ \E b \in 1..Len(bk) : BackupPut(b)
    \/ \E b \in 1..Len(bk) : BackupFails(b)
    \/ Tick

Spec == Init /\ [][Next]_vars

\* A ScheduleController of its own, with any handlers registered on it.  The
\* key-value store is empty, so a backup the daily handler starts goes from
\* the listing straight to the write; the stores do not fail here (Spec has
\* the backups whose store operations fail).
InitDispatch ==
    /\ cmd = <<>>
    /\ jobs = EmptyMap
    /\ disp = <<>>
    /\ KV = EmptyMap
    /\ BACKUPS = EmptyMap
    /\ bk = <<>>
    /\ pr = <<>>
    /\ now = 0

NextDispatch ==
    \/ \E schedule \in Schedules, h \in Handlers : handler(schedule, h)
    \/ \E cron \in Schedules : process(cron)
    \/ \E d \in 1..Len(disp), i \in 1..MaxJobs, outcome \in {"fulfilled", "rejected"} :
          HandlerSettles(d, i, outcome)
    \/ \E d \in 1..Len(disp) : ProcessSettles(d)
    \/ \E b \in 1..Len(bk) : BackupListed(b)
    \/ \E b \in 1..Len(bk) : BackupPut(b)

SpecDispatch == InitDispatch /\ [][NextDispatch]_vars

\* Instants at which the first prune may be called: the origin of the clock,
\* and an instant later than every timestamp of BucketNames
PruneStarts == {0, 11}

\* pruneBackups called on a bucket that holds earlier backups and other objects
InitPrune ==
    /\ cmd = <<>>
    /\ jobs = WorkerJobs
    /\ disp = <<>>
    /\ KV = EmptyMap
    /\ BACKUPS \in {[n \in S |-> ForeignObject] : S \in SUBSET BucketNames}
    /\ bk = <<>>
    /\ pr = <<>>
    /\ now \in PruneStarts

NextPrune ==
    \/ \E retentionDays \in {0, 1, BACKUP_RETENTION_DAYS} : pruneBackups(retentionDays)
    \/ \E p \in 1..Len(pr) : PruneListed(p)
    \/ \E p \in 1..Len(pr) : PruneDeleted(p)
    \/ \E p \in 1..Len(pr) : PruneFails(p)
    \/ Tick

SpecPrune == InitPrune /\ [][NextPrune]_vars

\* Backups requested over HTTP while keys of the store are deleted
NextRace ==
    \/ PostBackup
    \/ \E b \in 1..Len(bk) : BackupListed(b)
    \/ \E b \in 1..Len(bk) : BackupGot(b)
    \/ \E b \in 1..Len(bk) : BackupPut(b)
    \/ \E b \in 1..Len(bk) : BackupFails(b)
    \/ \E k \in DOMAIN KV : KeyDeleted(k)

SpecRace == Init /\ [][NextRace]_vars

\* The members who issue /code commands, as <<server, user>>
Issuers == {<<"g1", "u1">>, <<"g1", "u2">>, <<"g2", "u1">>}

\* The values of the 'user' option of /code list
UserOptions == {Null, Some("u2")}

\* The values of the 'name' and 'code' options of /code add: two names and
\* two codes
AddOptions == {Entry(name, code) : name \in {"SW", "friend"}, code \in {"123", "456"}}

\* The /code commands of the members of two servers, on an empty store
InitCodes ==
    /\ cmd = <<>>
    /\ jobs = WorkerJobs
    /\ disp = <<>>
    /\ KV = EmptyMap
    /\ BACKUPS = EmptyMap
    /\ bk = <<>>
    /\ pr = <<>>
    /\ now = 0

NextCodes ==
    \/ \E m \in Issuers, option \in UserOptions :
          CmdStart("list", m[1], m[2], option, "", "")
    \/ \E m \in Issuers, e \in AddOptions :
          CmdStart("add", m[1], m[2], Null, e.name, e.code)
    \/ \E m \in Issuers, name \in {e.name : e \in AddOptions} :
          CmdStart("remove", m[1], m[2], Null, name, "")
    \/ \E c \in 1..Len(cmd) : CmdGot(c)
    \/ \E c \in 1..Len(cmd) : CmdPut(c)

SpecCodes == InitCodes /\ [][NextCodes]_vars

----------------------------------------------------------------------------
(* The claims *)

Failed(hs, i) == hs[i] \in {"threw", "rejected"}

\* C1 (as claimed, for failures that are rejected promises): a dispatch over
\* two or more handlers, none of which threw, is rejected only when none of
\* the handlers it invoked is still running.
C1_RejectsOnlyAfterAllSettled ==
    \A d \in 1..Len(disp) :
        (/\ Len(disp[d].handlers) >= 2
         /\ disp[d].status = "rejected"
         /\ \A i \in 1..Len(disp[d].hstate) : disp[d].hstate[i] # "threw")
            => \A i \in 1..Len(disp[d].hstate) : disp[d].hstate[i] # "running"

\* C2 (as claimed): when a handler of a dispatch has failed, by throwing or by
\* a rejected promise, every handler of the dispatch was invoked exactly once.
C2_FailureDoesNotStopFanOut ==
    \A d \in 1..Len(disp) :
        (\E i \in 1..Len(disp[d].hstate) : Failed(disp[d].hstate, i))
            => \A j \in 1..Len(disp[d].calls) : disp[d].calls[j] = 1

\* C3 (as claimed, its consequence for a dispatch that completes without
\* error): when the dispatch has completed, the background work its handlers
\* registered through executionCtx.waitUntil has finished.
C3_DispatchAwaitsDeferredWork ==
    \A d \in 1..Len(disp) :
        disp[d].status = "fulfilled"
            => \A b \in disp[d].waitUntil : bk[b].pc = "done"

\* C3 (amended): a dispatch completes without error only when every handler
\* registered for the schedule was invoked once and the promise it returned
\* is fulfilled; the backup a handler started is not awaited, it is held by
\* the waitUntil set of the dispatch that started it.
C3_DispatchAwaitsHandlers ==
    /\ \A d \in 1..Len(disp) :
          disp[d].status = "fulfilled"
              => \A i \in 1..Len(disp[d].handlers) :
                    disp[d].calls[i] = 1 /\ disp[d].hstate[i] = "fulfilled"
    /\ \A b \in 1..Len(bk) :
          bk[b].trigger = "cron" => \E d \in 1..Len(disp) : b \in disp[d].waitUntil

\* C3 witness: a dispatch over two handlers has completed while the backup
\* the daily handler started is still waiting for the key listing.
C3_Witness ==
    \E d \in 1..Len(disp) :
        /\ disp[d].status = "fulfilled"
        /\ Len(disp[d].handlers) = 2
        /\ \E b \in disp[d].waitUntil : bk[b].pc = "list"

\* C4: while no handler of a dispatch over one or more handlers has failed,
\* every handler registered for the schedule has been invoked exactly once
\* (each is started before any is awaited) and no warning is logged.
C4_AllInvokedOnce ==
    \A d \in 1..Len(disp) :
        (/\ Len(disp[d].handlers) >= 1
         /\ \A i \in 1..Len(disp[d].hstate) : ~Failed(disp[d].hstate, i))
            => /\ \A i \in 1..Len(disp[d].handlers) :
                     /\ disp[d].calls[i] = 1
                     /\ disp[d].hstate[i] \in {"running", "fulfilled"}
               /\ disp[d].log = <<>>

\* C4 witness: two different handlers of one schedule are both running, and
\* the dispatch is waiting for them.
C4_Witness ==
    \E d \in 1..Len(disp) :
        /\ disp[d].handlers = <<"h1", "h2">>
        /\ disp[d].hstate = <<"running", "running">>
        /\ disp[d].status = "pending"

\* C5: a dispatch of a schedule that has no registered handler invokes no
\* handler, logs exactly one warning, which names the schedule, and completes
\* without error.  (Registrations are never removed, so a schedule without
\* handlers now had none when it was dispatched.)
C5_NoHandlerWarnsOnce ==
    \A d \in 1..Len(disp) :
        disp[d].cron \notin DOMAIN jobs
            => /\ disp[d].calls = <<>>
               /\ disp[d].waitUntil = {}
               /\ disp[d].log = <<WarnLine(disp[d].cron)>>
               /\ disp[d].status = "fulfilled"

\* C5 witness: the empty schedule string was dispatched on a controller that
\* holds handlers for another schedule only.
C5_Witness ==
    \E d \in 1..Len(disp) :
        /\ disp[d].cron = ""
        /\ "" \notin DOMAIN jobs
        /\ DOMAIN jobs # {}
        /\ Len(disp[d].log) = 1

\* The keys under the prefix, with the values they hold
UnderPrefixData == [k \in {x \in DOMAIN KV : UnderPrefix(x)} |-> KV[k]]

\* A backup call that is over, during which no store operation failed and
\* the key-value store was not written
QuietBackup(b) ==
    /\ bk[b].pc = "done"
    /\ bk[b].failed = "none"
    /\ ~bk[b].raced

Document(b) == JsonParse(bk[b].req[1].body)

\* C6: a backup during which no store operation failed and nobody wrote to the
\* key-value store, and whose listing fitted in one page, has put exactly one
\* object: its document has version "1.0" and maps exactly the keys under
\* 'user_codes/' to the values they hold, and keyCount is the number of keys.
\* No backup puts more than one object.
C6_SnapshotIsExact ==
    \A b \in 1..Len(bk) :
        /\ bk[b].nputs <= 1
        /\ (QuietBackup(b) /\ bk[b].complete)
              => /\ bk[b].nputs = 1
                 /\ Document(b).version = "1.0"
                 /\ Document(b).data = UnderPrefixData
                 /\ bk[b].req[1].customMetadata.keyCount
                       = NumberToString(Cardinality(DOMAIN Document(b).data))

\* C6 witness: a backup of a store that holds an emptied list under the
\* prefix and a key outside the prefix has completed.
C6_Witness ==
    \E b \in 1..Len(bk) :
        /\ QuietBackup(b) /\ bk[b].complete
        /\ LegacyKey \in DOMAIN KV
        /\ \E k \in DOMAIN Document(b).data : Document(b).data[k] = <<>>

\* C7 (as claimed): also when the listing comes in several pages, the document
\* of a backup during which nothing failed and nobody wrote holds every key
\* under the prefix.
C7_FollowsCursors ==
    \A b \in 1..Len(bk) :
        QuietBackup(b)
            => DOMAIN Document(b).data = {x \in DOMAIN KV : UnderPrefix(x)}

\* C8: whichever store operation fails (the listing, a fetch or the write),
\* the backup call is over, its promise is fulfilled and the failure is
\* logged; the promise of a backup call is never rejected.
C8_BackupNeverRejects ==
    \A b \in 1..Len(bk) :
        /\ bk[b].result # "rejected"
        /\ bk[b].failed # "none"
              => /\ bk[b].pc = "done"
                 /\ bk[b].result = "resolved"
                 /\ bk[b].log = <<<<"error", "Backup failed:">>>>

\* C8 witness: one backup whose fetch failed and one whose write failed.
C8_Witness ==
    \E b, c \in 1..Len(bk) :
        /\ bk[b].failed = "get" /\ bk[b].result = "resolved"
        /\ bk[c].failed = "put" /\ bk[c].result = "resolved"

\* C9 (as claimed): no backup writes to a name the bucket already holds.
C9_ArchivesAreWriteOnce ==
    \A b \in 1..Len(bk) : ~bk[b].existed

\* Whether key is 'backup-' followed by one or more digits and '.json'
IsBackupName(key) ==
    /\ Len(key) > Len(StrBackup) + Len(StrJson)
    /\ SubSeq(key, 1, Len(StrBackup)) = StrBackup
    /\ EndsWith(key, StrJson)
    /\ \A i \in (Len(StrBackup) + 1)..(Len(key) - Len(StrJson)) : IsDigit(key[i])

EmbeddedTimestamp(key) ==
    ParseInt(SubSeq(key, Len(StrBackup) + 1, Len(key) - Len(StrJson)))

\* C10 (as claimed): a prune during which no bucket operation failed has
\* deleted, among the objects listed, exactly those named backup-<digits>.json
\* with a timestamp below the cutoff, and has issued no delete when there is
\* none.
C10_PrunesExactlyTheOld ==
    \A p \in 1..Len(pr) :
        (pr[p].pc = "done" /\ pr[p].log[1][1] = "log")
            => LET old == {n \in {pr[p].listed[i] : i \in 1..Len(pr[p].listed)} :
                             IsBackupName(n) /\ EmbeddedTimestamp(n) < pr[p].cutoff}
               IN /\ pr[p].keysToDelete = old
                  /\ pr[p].ndeletes = (IF old = {} THEN 0 ELSE 1)

\* C11 (as claimed): a prune never deletes an object whose name is not
\* 'backup-', one or more digits, '.json' and nothing else.
C11_DeletesOnlyBackupNames ==
    \A p \in 1..Len(pr) : \A n \in pr[p].deleted : IsBackupName(n)

\* The names of the bucket that are backup-<digits>.json with a timestamp
\* below the cutoff
OldBackups(bucket, cutoff) ==
    {n \in DOMAIN bucket : IsBackupName(n) /\ EmbeddedTimestamp(n) < cutoff}

\* C12 (as claimed): once a prune during which no bucket operation failed is
\* over, the bucket holds no object named backup-<digits>.json with a
\* timestamp below the cutoff of that prune.
C12_NoOldBackupRemains ==
    \A p \in 1..Len(pr) :
        (pr[p].pc = "done" /\ pr[p].log[1][1] = "log")
            => OldBackups(BACKUPS, pr[p].cutoff) = {}

\* A prune during which the listing or the delete failed
PruneFailed(p) == Len(pr[p].log) > 0 /\ pr[p].log[1][1] = "error"

\* C13: the promise of a prune is never rejected; a prune whose listing or
\* delete failed is over, fulfilled, and has logged the failure once; and a
\* prune called after one that failed, and that does not fail itself, has
\* removed from the bucket every object it listed that is named
\* backup-<digits>.json with a timestamp below its cutoff.
C13_PruneNeverRejects ==
    /\ \A p \in 1..Len(pr) :
          /\ pr[p].result # "rejected"
          /\ PruneFailed(p)
                => /\ pr[p].pc = "done"
                   /\ pr[p].result = "resolved"
                   /\ pr[p].log = <<<<"error", "Backup pruning failed:">>>>
                   /\ pr[p].deleted = {}
    /\ \A p, q \in 1..Len(pr) :
          (p < q /\ PruneFailed(p) /\ pr[q].pc = "done" /\ ~PruneFailed(q))
              => \A i \in 1..Len(pr[q].listed) :
                    LET n == pr[q].listed[i]
                    IN (IsBackupName(n) /\ EmbeddedTimestamp(n) < pr[q].cutoff)
                          => n \notin DOMAIN BACKUPS

\* C13 witness: the delete of one prune failed, and a later prune has deleted
\* the objects the first one had collected.
C13_Witness ==
    \E p, q \in 1..Len(pr) :
        /\ p < q
        /\ PruneFailed(p) /\ pr[p].keysToDelete # {}
        /\ pr[q].pc = "done" /\ pr[q].deleted = pr[p].keysToDelete

\* C14 (as claimed): a /code list command that has replied shows the list the
\* store held, when the command read it, for the user of its 'user' option in
\* the server of the command, and for the user who issued it when it carries
\* no option.
C14_ListShowsMentionedUser ==
    \A c \in 1..Len(cmd) :
        (cmd[c].kind = "list" /\ cmd[c].pc = "done")
            => cmd[c].reply = ListReply(cmd[c].theirs)

\* Whether two entries of the list have the same name
RepeatsName(list) ==
    \E i, j \in 1..Len(list) : i # j /\ list[i].name = list[j].name

\* Whether the value read holds an entry with that name or with that code
Occurs(read, name, code) ==
    \E i \in 1..Len(OrEmpty(read)) :
        read[1][i].name = name \/ read[1][i].code = code

\* C15: from an empty store, whatever add and remove commands ran and however
\* they interleaved, no stored list holds two entries with the same name; and
\* an add that read a list in which its name or its code occurs has replied
\* that it already exists and has written nothing.
C15_NoDuplicateNames ==
    /\ \A k \in DOMAIN KV : ~RepeatsName(KV[k])
    /\ \A c \in 1..Len(cmd) :
          (/\ cmd[c].kind = "add"
           /\ cmd[c].pc # "get"
           /\ Occurs(cmd[c].existing, cmd[c].name, cmd[c].code))
              => /\ cmd[c].pc = "done"
                 /\ cmd[c].reply = <<"already exists">>
                 /\ ~cmd[c].wrote

\* C15 witness: an add of a name the list already holds, with another code,
\* was refused, and the list still holds the one entry.
C15_Witness ==
    \E c \in 1..Len(cmd) :
        /\ cmd[c].kind = "add" /\ cmd[c].reply = <<"already exists">>
        /\ cmd[c].key \in DOMAIN KV
        /\ Len(KV[cmd[c].key]) = 1
        /\ KV[cmd[c].key][1].name = cmd[c].name
        /\ KV[cmd[c].key][1].code # cmd[c].code

\* C19: a step changes the value of a key of the store (or creates the key)
\* only when an add or a remove command completes its write, and the key is
\* then user_codes/g/u for the server g and the user u who issued that
\* command; a list command changes no key.
C19_OnlyOwnKeyChanges ==
    [][\A k \in DOMAIN KV \cup DOMAIN KV' :
          (k \notin DOMAIN KV \/ k \notin DOMAIN KV' \/ KV[k] # KV'[k])
              => \E c \in 1..Len(cmd) :
                    /\ cmd[c].kind \in {"add", "remove"}
                    /\ cmd[c].pc = "put" /\ cmd'[c].pc = "done"
                    /\ k = <<"user_codes", cmd[c].server, cmd[c].user>>]_vars

\* C19 witness: a member has written the list of server g1 while the store
\* holds another list for the same user in server g2.
C19_Witness ==
    \E c \in 1..Len(cmd) :
        /\ cmd[c].wrote
        /\ cmd[c].server = "g1" /\ cmd[c].user = "u1"
        /\ <<"user_codes", "g2", "u1">> \in DOMAIN KV
        /\ KV[<<"user_codes", "g2", "u1">>] # KV[<<"user_codes", "g1", "u1">>]

\* C20 (as claimed, for the names no remove command mentions): once every
\* command is over, the entry of each add that replied 'Added code' is in the
\* list stored under the key of that add.
C20_NoLostUpdate ==
    (\A c \in 1..Len(cmd) : cmd[c].pc = "done")
        => \A c \in 1..Len(cmd) :
              (/\ cmd[c].kind = "add"
               /\ cmd[c].reply = <<"Added code">>
               /\ \A r \in 1..Len(cmd) :
                     ~(/\ cmd[r].kind = "remove"
                       /\ cmd[r].key = cmd[c].key
                       /\ cmd[r].name = cmd[c].name))
                  => \E i \in 1..Len(KV[cmd[c].key]) :
                        KV[cmd[c].key][i] = Entry(cmd[c].name, cmd[c].code)

C17_ExactStringMatch ==
    \A d \in 1..Len(disp) :
        /\ Len(disp[d].calls) = Len(disp[d].handlers)
        /\ \A i \in 1..Len(disp[d].handlers) :
              /\ disp[d].cron \in DOMAIN jobs
              /\ i <= Len(jobs[disp[d].cron])
              /\ jobs[disp[d].cron][i] = disp[d].handlers[i]
        /\ disp[d].waitUntil # {}
              => /\ disp[d].cron \in DOMAIN jobs
                 /\ \E i \in 1..Len(jobs[disp[d].cron]) :
                       jobs[disp[d].cron][i] = "backupHandler"

\* C17 witness: handlers are registered for the daily schedule only, and a
\* dispatch of the same schedule followed by a blank has invoked none.
C17_Witness ==
    \E d \in 1..Len(disp) :
        /\ disp[d].cron = "0 0 * * * "
        /\ DOMAIN jobs = {DailyCron}
        /\ disp[d].calls = <<>>
        /\ disp[d].waitUntil = {}

\* The keys a backup listed
Listed(b) == {bk[b].keys[i] : i \in 1..Len(bk[b].keys)}

\* C18: a backup that found no value for one or more of the keys it listed,
\* and during which no store operation failed, is over with its promise
\* fulfilled and has put one object, which the bucket holds under the name
\* put; the data of its document holds the listed keys that had a value and
\* none of the others, and keyCount is the number of the keys it holds.
C18_AbsentValueIsSkipped ==
    \A b \in 1..Len(bk) :
        (bk[b].pc = "done" /\ bk[b].failed = "none" /\ bk[b].skipped # {})
            => /\ bk[b].result = "resolved"
               /\ bk[b].nputs = 1
               /\ bk[b].req[1].name \in DOMAIN BACKUPS
               /\ DOMAIN Document(b).data = Listed(b) \ bk[b].skipped
               /\ bk[b].req[1].customMetadata.keyCount
                     = NumberToString(Cardinality(Listed(b) \ bk[b].skipped))

\* C18 witness: a backup listed two keys, one of which was deleted before it
\* was fetched, and has written a document that holds the other one.
C18_Witness ==
    \E b \in 1..Len(bk) :
        /\ bk[b].pc = "done" /\ bk[b].failed = "none"
        /\ Len(bk[b].keys) = 2
        /\ Cardinality(bk[b].skipped) = 1
        /\ Cardinality(DOMAIN Document(b).data) = 1

\* C21: no step of the worker (a command, POST /backup, a cron dispatch and
\* the backups they start) removes a name from the bucket, and no step calls
\* pruneBackups.
C21_ArchiveNamesOnlyGrow ==
    [][/\ DOMAIN BACKUPS \subseteq DOMAIN BACKUPS'
       /\ pr' = <<>>]_vars

\* C21 witness: the bucket holds the archives of two instants, one written
\* by the backup of the daily dispatch and one by a backup POST /backup
\* started, and no prune was ever called.
C21_Witness ==
    /\ Cardinality(DOMAIN BACKUPS) = 2
    /\ pr = <<>>
    /\ \E b, c \in 1..Len(bk) :
          /\ bk[b].trigger = "cron" /\ bk[b].nputs = 1
          /\ bk[c].trigger = "http" /\ bk[c].nputs = 1

====
